---- MODULE Spec2Model ----
(***************************************************************************)
(* A model of clean_project.py: a script that lists a fixed sequence of    *)
(* file paths, asks for the confirmation line DELETE, and then removes     *)
(* each path that exists, printing one outcome per entry.                  *)
(*                                                                         *)
(* The state is the script's variables (files_to_delete, confirm, the loop *)
(* position), its standard output and exit status, and the part of the     *)
(* filesystem it touches.  Strings that the script inspects are sequences  *)
(* of one-character strings, so that strip() is computed and not assumed.  *)
(***************************************************************************)
EXTENDS Integers, Sequences, FiniteSets, TLC

VARIABLES
  files_to_delete, \* the target list (module global, lines 3-7)
  fs,              \* the paths that exist on the filesystem
  locked,          \* the existing paths on which os.remove raises
  pc,              \* the statement the process is at
  i,               \* position of the deletion loop in files_to_delete
  confirm,         \* the line returned by input() (line 13)
  out,             \* standard output of the current process, line by line
  err,             \* standard error of the current process (tracebacks)
  exitCode,        \* <<>> while running, <<status>> once exited
  attempts,        \* indices of the entries os.remove was called for
  fs0,             \* the filesystem when the current process started
  run,             \* number of the current invocation of the script
  prev             \* what the previous invocation left: its output, status, fs0

vars == <<files_to_delete, fs, locked, pc, i, confirm, out, err, exitCode,
          attempts, fs0, run, prev>>

(***************************************************************************)
(* Bounds.                                                                 *)
(***************************************************************************)
MaxLen == 3    \* longest target list
MaxPad == 2    \* most whitespace characters on each side of an input line
MaxRuns == 2   \* invocations of the script in succession

(***************************************************************************)
(* The program's literals.                                                 *)
(***************************************************************************)
Paths == {"pubspec.yaml", "analysis_options.yaml", "README.md"}

ShippedList == <<"pubspec.yaml", "analysis_options.yaml", "README.md">>

TOKEN == <<"D", "E", "L", "E", "T", "E">>

\* The characters str.strip() removes, among those the inputs are drawn from.
Whitespace == {" ", "\t"}

isspace(c) == c \in Whitespace

(***************************************************************************)
(* Sequences of bounded length, for drawing lists and lines.               *)
(***************************************************************************)
SeqUpTo(S, n) == UNION {[1..k -> S] : k \in 0..n}

TargetLists == SeqUpTo(Paths, MaxLen)

(***************************************************************************)
(* Input lines.  input() returns the line without its newline.  A line is  *)
(* a core word with whitespace around it.                                  *)
(***************************************************************************)
Pads == SeqUpTo(Whitespace, MaxPad)

Cores ==
  { TOKEN,
    <<"d", "e", "l", "e", "t", "e">>,
    <<"D", "e", "l", "e", "t", "e">>,
    <<"D", "E", "L", "E", "T">>,
    <<"D", "E", "L", "E", "T", "E", "D">>,
    <<"D", "E", "L", " ", "E", "T", "E">>,
    <<>> }

AllLines == {a \o c \o b : a \in Pads, c \in Cores, b \in Pads}

SomeLines ==
  { TOKEN,
    <<" ">> \o TOKEN \o <<"\t">>,
    <<"d", "e", "l", "e", "t", "e">>,
    <<"D", "E", "L", "E", "T">>,
    <<>> }

(***************************************************************************)
(* str.strip(): drop the longest whitespace prefix and suffix.             *)
(***************************************************************************)
RECURSIVE lstrip(_)
lstrip(s) ==
  IF s # <<>> /\ isspace(Head(s)) THEN lstrip(Tail(s)) ELSE s

RECURSIVE rstrip(_)
rstrip(s) ==
  IF s # <<>> /\ isspace(s[Len(s)]) THEN rstrip(SubSeq(s, 1, Len(s) - 1)) ELSE s

\* strip() mistaken for lstrip().
stripLeft(s) == lstrip(s)

strip(s) == rstrip(lstrip(s))

\* The test of line 14 mistaken for a test that something was typed.
MatchesNonBlank(line) == strip(line) # <<>>

\* Line 14, negated: the deletion phase is entered when this holds.
Matches(line) == strip(line) = TOKEN

(***************************************************************************)
(* Output lines.                                                           *)
(***************************************************************************)
Line(k, p, r) == [kind |-> k, path |-> p, reason |-> r]

HeaderLine == Line("Header", "", "")                 \* line 9
PathLine(p) == Line("Path", p, "")                   \* line 11
PromptLine == Line("Prompt", "", "")                 \* line 13
AbortLine == Line("Aborted", "", "")                 \* line 15
DeletedLine(p) == Line("Deleted", p, "")             \* line 22
SkippedLine(p) == Line("Skipped", p, "")             \* line 24
FailedLine(p, r) == Line("Failed", p, r)             \* line 26

(***************************************************************************)
(* The filesystem calls.                                                   *)
(***************************************************************************)
\* The existence check left out.
existsAlways(f, fsys) == TRUE

\* os.path.exists(f)
exists(f, fsys) == f \in fsys

\* The exception os.remove(f) raises, "" when it returns normally.
RemoveError(f, fsys, lck) ==
  IF f \notin fsys THEN "FileNotFoundError"
  ELSE IF f \in lck THEN "PermissionError"
  ELSE ""

\* os.remove that reports success and removes nothing.
RemoveKeeps(fsys, f) == fsys

\* Removal of the directory that holds f (all targets share it).
RemoveTree(fsys, f) == {}

\* The filesystem after os.remove(f) returned normally.
RemoveFrom(fsys, f) == fsys \ {f}

(***************************************************************************)
(* Control flow of the two for loops.                                      *)
(***************************************************************************)
\* After entry k of an n-entry listing loop (lines 10-11).
AfterListed(k, n) == IF k < n THEN "listing" ELSE "prompt"

\* A deletion loop that stops one entry early.
AfterEntryShort(k, n) == IF k + 1 < n THEN "loop" ELSE "exited"

\* After entry k of an n-entry deletion loop (lines 18-26): the next entry,
\* or the end of the script.
AfterEntry(k, n) == IF k < n THEN "loop" ELSE "exited"

\* The exit status once the script ran off its end: 0, and none before.
StatusAfter(k, n) == IF k < n THEN <<>> ELSE <<0>>

NoPrev == [out |-> <<>>, exitCode |-> <<>>, fs0 |-> {}]

(***************************************************************************)
(* Initial states: a process about to execute line 9, for some target list *)
(* and some filesystem.                                                    *)
(***************************************************************************)
ProcessStart ==
  /\ pc = "start"
  /\ i = 1
  /\ confirm = <<>>
  /\ out = <<>>
  /\ err = <<>>
  /\ exitCode = <<>>
  /\ attempts = <<>>

Init ==
  /\ files_to_delete \in TargetLists
  /\ fs \in SUBSET Paths
  /\ locked \in SUBSET fs
  /\ fs0 = fs
  /\ run = 1
  /\ prev = NoPrev
  /\ ProcessStart

(***************************************************************************)
(* Actions.                                                                *)
(***************************************************************************)
N == Len(files_to_delete)

\* Line 9.
PrintHeader ==
  /\ pc = "start"
  /\ out' = Append(out, HeaderLine)
  /\ i' = 1
  /\ pc' = AfterListed(0, N)
  /\ UNCHANGED <<files_to_delete, fs, locked, confirm, err, exitCode,
                 attempts, fs0, run, prev>>

\* Lines 10-11, one iteration.
PrintPath ==
  /\ pc = "listing"
  /\ out' = Append(out, PathLine(files_to_delete[i]))
  /\ i' = IF i < N THEN i + 1 ELSE 1
  /\ pc' = AfterListed(i, N)
  /\ UNCHANGED <<files_to_delete, fs, locked, confirm, err, exitCode,
                 attempts, fs0, run, prev>>

\* Line 13: input() writes the prompt and returns a line.
ReadConfirm(lines) ==
  /\ pc = "prompt"
  /\ \E line \in lines : confirm' = line
  /\ out' = Append(out, PromptLine)
  /\ pc' = "compare"
  /\ UNCHANGED <<files_to_delete, fs, locked, i, err, exitCode,
                 attempts, fs0, run, prev>>

\* Line 13 at end of input: input() raises EOFError, which nothing catches;
\* the interpreter prints the traceback and exits with status 1.
ReadEOF ==
  /\ pc = "prompt"
  /\ out' = Append(out, PromptLine)
  /\ err' = Append(err, "EOFError")
  /\ pc' = "exited"
  /\ exitCode' = <<1>>
  /\ UNCHANGED <<files_to_delete, fs, locked, i, confirm,
                 attempts, fs0, run, prev>>

\* exit() called without its argument.
AbortStatusZero ==
  /\ pc = "compare"
  /\ ~Matches(confirm)
  /\ out' = Append(out, AbortLine)
  /\ pc' = "exited"
  /\ exitCode' = <<0>>
  /\ UNCHANGED <<files_to_delete, fs, locked, i, confirm, err,
                 attempts, fs0, run, prev>>

\* Lines 14-16.
Abort ==
  /\ pc = "compare"
  /\ ~Matches(confirm)
  /\ out' = Append(out, AbortLine)
  /\ pc' = "exited"
  /\ exitCode' = <<1>>
  /\ UNCHANGED <<files_to_delete, fs, locked, i, confirm, err,
                 attempts, fs0, run, prev>>

\* Line 14 false: on to line 18, or off the end of the script.
Proceed ==
  /\ pc = "compare"
  /\ Matches(confirm)
  /\ i' = 1
  /\ pc' = AfterEntry(0, N)
  /\ exitCode' = StatusAfter(0, N)
  /\ UNCHANGED <<files_to_delete, fs, locked, confirm, out, err,
                 attempts, fs0, run, prev>>

\* Lines 20, 23-24: the existence check of entry i and, when it is false,
\* the skipped message.
CheckExists ==
  /\ pc = "loop"
  /\ IF exists(files_to_delete[i], fs)
       THEN /\ pc' = "remove"
            /\ UNCHANGED <<i, out, exitCode>>
       ELSE /\ out' = Append(out, SkippedLine(files_to_delete[i]))
            /\ i' = IF i < N THEN i + 1 ELSE i
            /\ pc' = AfterEntry(i, N)
            /\ exitCode' = StatusAfter(i, N)
  /\ UNCHANGED <<files_to_delete, fs, locked, confirm, err,
                 attempts, fs0, run, prev>>

\* The loop body without its try/except: a failure ends the process.
RemoveNoCatch ==
  /\ pc = "remove"
  /\ attempts' = Append(attempts, i)
  /\ LET f == files_to_delete[i]
         e == RemoveError(f, fs, locked)
     IN  IF e = ""
           THEN /\ fs' = RemoveFrom(fs, f)
                /\ out' = Append(out, DeletedLine(f))
                /\ err' = err
                /\ i' = IF i < N THEN i + 1 ELSE i
                /\ pc' = AfterEntry(i, N)
                /\ exitCode' = StatusAfter(i, N)
           ELSE /\ fs' = fs
                /\ out' = out
                /\ err' = Append(err, e)
                /\ i' = i
                /\ pc' = "exited"
                /\ exitCode' = <<1>>
  /\ locked' = locked \cap fs'
  /\ UNCHANGED <<files_to_delete, confirm, fs0, run, prev>>

\* The except clause retrying the entry instead of moving on.
RemoveRetry ==
  /\ pc = "remove"
  /\ attempts' = Append(attempts, i)
  /\ LET f == files_to_delete[i]
         e == RemoveError(f, fs, locked)
     IN  IF e = ""
           THEN /\ fs' = RemoveFrom(fs, f)
                /\ out' = Append(out, DeletedLine(f))
                /\ i' = IF i < N THEN i + 1 ELSE i
                /\ pc' = AfterEntry(i, N)
                /\ exitCode' = StatusAfter(i, N)
           ELSE /\ fs' = fs
                /\ out' = Append(out, FailedLine(f, e))
                /\ i' = i
                /\ pc' = "remove"
                /\ exitCode' = exitCode
  /\ locked' = locked \cap fs'
  /\ UNCHANGED <<files_to_delete, confirm, err, fs0, run, prev>>

\* Lines 21-22, 25-26: os.remove on entry i, then the deleted message, or
\* the failure message of the except clause.
Remove ==
  /\ pc = "remove"
  /\ attempts' = Append(attempts, i)
  /\ LET f == files_to_delete[i]
         e == RemoveError(f, fs, locked)
     IN  IF e = ""
           THEN /\ fs' = RemoveFrom(fs, f)
                /\ out' = Append(out, DeletedLine(f))
           ELSE /\ fs' = fs
                /\ out' = Append(out, FailedLine(f, e))
  /\ locked' = locked \cap fs'
  /\ i' = IF i < N THEN i + 1 ELSE i
  /\ pc' = AfterEntry(i, N)
  /\ exitCode' = StatusAfter(i, N)
  /\ UNCHANGED <<files_to_delete, confirm, err, fs0, run, prev>>

\* The script is invoked again after the previous process has exited.
Rerun ==
  /\ pc = "exited"
  /\ run < MaxRuns
  /\ run' = run + 1
  /\ prev' = [out |-> out, exitCode |-> exitCode, fs0 |-> fs0]
  /\ fs0' = fs
  /\ pc' = "start"
  /\ i' = 1
  /\ confirm' = <<>>
  /\ out' = <<>>
  /\ err' = <<>>
  /\ exitCode' = <<>>
  /\ attempts' = <<>>
  /\ UNCHANGED <<files_to_delete, fs, locked>>

\* Another process removes a path while the script runs.
ExternalRemove ==
  /\ pc # "exited"
  /\ \E p \in fs :
       /\ fs' = fs \ {p}
       /\ locked' = locked \ {p}
  /\ UNCHANGED <<files_to_delete, pc, i, confirm, out, err, exitCode,
                 attempts, fs0, run, prev>>

Next ==
  \/ PrintHeader
  \/ PrintPath
  \/ ReadConfirm(SomeLines)
  \/ ReadEOF
  \/ Abort
  \/ Proceed
  \/ CheckExists
  \/ Remove
  \/ Rerun

Spec == Init /\ [][Next]_vars

\* The confirmation step on its own: the shipped list, every file present,
\* and every input line of AllLines.
InitInput ==
  /\ files_to_delete = ShippedList
  /\ fs = Paths
  /\ locked = {}
  /\ fs0 = fs
  /\ run = 1
  /\ prev = NoPrev
  /\ ProcessStart

NextInput ==
  \/ PrintHeader
  \/ PrintPath
  \/ ReadConfirm(AllLines)
  \/ ReadEOF
  \/ Abort
  \/ Proceed
  \/ CheckExists
  \/ Remove
  \/ Rerun

SpecInput == InitInput /\ [][NextInput]_vars

\* The script beside another process that removes files.
NextEnv == Next \/ ExternalRemove

SpecEnv == Init /\ [][NextEnv]_vars

(***************************************************************************)
(* Vocabulary of the properties.                                           *)
(***************************************************************************)
Range(s) == {s[k] : k \in DOMAIN s}

IsOutcome(l) == l.kind \in {"Deleted", "Skipped", "Failed"}

IsAttemptLine(l) == l.kind \in {"Deleted", "Failed"}

IsPathLine(l) == l.kind = "Path"

IsFailed(l) == l.kind = "Failed"

\* The outcome lines of an output, in order.
OutcomesOf(o) == SelectSeq(o, IsOutcome)

Outcomes == OutcomesOf(out)

\* The paths printed under the header, in order.
Listed == SelectSeq(out, IsPathLine)

\* A line that is DELETE between two runs of whitespace, said without strip.
IsAccepted(line) ==
  \E a \in 0..Len(line) :
    /\ Len(line) >= a + Len(TOKEN)
    /\ SubSeq(line, a + 1, a + Len(TOKEN)) = TOKEN
    /\ \A k \in 1..Len(line) :
         (k <= a \/ k > a + Len(TOKEN)) => line[k] \in Whitespace

\* input() returned a line (the process is past line 13 and did not die there).
LineRead == pc \in {"compare", "loop", "remove", "exited"} /\ err = <<>>

\* The process is past the comparison of line 14 with a matching line.
InDeletion ==
  pc \in {"loop", "remove", "exited"} /\ err = <<>> /\ IsAccepted(confirm)

\* Entries of the deletion loop that are behind the process.
Processed == IF pc = "exited" THEN N ELSE i - 1

\* The paths the outcome lines before position k report as deleted.
DeletedBefore(k) ==
  {Outcomes[j].path : j \in {j \in 1..(k - 1) : Outcomes[j].kind = "Deleted"}}

\* What entry k must report, from the filesystem the process started on.
Expected(k) ==
  LET p == files_to_delete[k]
  IN  IF p \notin fs0 \ DeletedBefore(k) THEN "Skipped"
      ELSE IF p \in locked THEN "Failed"
      ELSE "Deleted"

FailedCount(p) ==
  Cardinality({k \in DOMAIN out : out[k].kind = "Failed" /\ out[k].path = p})

AttemptCount(p) ==
  Cardinality({a \in DOMAIN attempts : files_to_delete[attempts[a]] = p})

Lower == <<"d", "e", "l", "e", "t", "e">>

NoFailure(o) == \A k \in DOMAIN o : o[k].kind # "Failed"

Occurrences(p) ==
  Cardinality({k \in DOMAIN files_to_delete : files_to_delete[k] = p})

ReportedDeleted ==
  {out[k].path : k \in {k \in DOMAIN out : out[k].kind = "Deleted"}}

(***************************************************************************)
(* C1.  A run whose confirmation line is not DELETE between whitespace     *)
(* removes nothing: the filesystem at exit is the one at start, no removal *)
(* was attempted, the abort message is the last thing printed and the      *)
(* status is 1.  And no removal is attempted in any run before a matching  *)
(* line has been read.                                                     *)
(***************************************************************************)
C1_NoRemovalWithoutConfirmation ==
  /\ (LineRead /\ ~IsAccepted(confirm)) =>
       /\ pc \in {"compare", "exited"}
       /\ fs = fs0
       /\ attempts = <<>>
       /\ Outcomes = <<>>
       /\ pc = "exited" =>
            /\ exitCode = <<1>>
            /\ out[Len(out)] = AbortLine
  /\ (attempts # <<>> \/ fs # fs0 \/ Outcomes # <<>>) =>
       (LineRead /\ IsAccepted(confirm) /\ pc # "compare")

C1_Witness ==
  /\ pc = "exited"
  /\ confirm = Lower
  /\ files_to_delete = ShippedList
  /\ fs = Paths
  /\ locked = {}
  /\ exitCode = <<1>>

(***************************************************************************)
(* C2.  In a confirmed run the outcome lines are, in order, one per entry  *)
(* of the target list that the loop has passed: entry k is reported        *)
(* skipped when its path is missing (it never existed, or an earlier entry *)
(* deleted it), failed when it exists and removal raises, deleted when it  *)
(* exists and removal succeeds; at exit every entry has its outcome.       *)
(***************************************************************************)
C2_EachEntryOnceInOrder ==
  InDeletion =>
    /\ Len(Outcomes) = Processed
    /\ \A k \in 1..Len(Outcomes) :
         /\ k <= N
         /\ Outcomes[k].path = files_to_delete[k]
         /\ Outcomes[k].kind = Expected(k)

C2_Witness ==
  /\ pc = "exited"
  /\ InDeletion
  /\ N = 3
  /\ Outcomes[1].kind = "Deleted"
  /\ Outcomes[2].kind = "Skipped"
  /\ Outcomes[3].kind = "Failed"

(***************************************************************************)
(* C3.  In a confirmed run no failure leaves the loop: nothing reaches     *)
(* standard error, every passed entry whose removal raises has a failure   *)
(* line naming its path and the reason, and the process ends with an       *)
(* outcome for every entry, the ones after a failure included.             *)
(***************************************************************************)
C3_FailureIsolated ==
  (pc \in {"loop", "remove", "exited"} /\ IsAccepted(confirm)) =>
    /\ err = <<>>
    /\ pc # "exited" => exitCode = <<>>
    /\ pc = "exited" => Len(Outcomes) = N
    /\ \A k \in 1..Processed :
         (files_to_delete[k] \in locked) =>
           /\ k <= Len(Outcomes)
           /\ Outcomes[k].kind = "Failed"
           /\ Outcomes[k].path = files_to_delete[k]
           /\ Outcomes[k].reason # ""

C3_Witness ==
  /\ pc = "exited"
  /\ InDeletion
  /\ N = 3
  /\ Outcomes[1].kind = "Failed"
  /\ Outcomes[2].kind = "Failed"
  /\ Outcomes[3].kind = "Deleted"

(***************************************************************************)
(* C4.  A process has a status only once it has exited; the status is 1    *)
(* exactly when no matching confirmation line was read, and 0 exactly when *)
(* the deletion phase was entered, in which case every entry was           *)
(* processed, whatever the outcomes.                                       *)
(***************************************************************************)
C4_StatusReflectsConfirmation ==
  /\ pc # "exited" => exitCode = <<>>
  /\ pc = "exited" =>
       /\ exitCode \in {<<0>>, <<1>>}
       /\ exitCode = <<1>> <=> ~(LineRead /\ IsAccepted(confirm))
       /\ exitCode = <<0>> => Len(Outcomes) = N

C4_Witness ==
  /\ pc = "exited"
  /\ exitCode = <<0>>
  /\ N = 2
  /\ \A k \in 1..N : Outcomes[k].kind = "Failed"

(***************************************************************************)
(* C5.  The deletion phase is entered if and only if the line read is      *)
(* DELETE with nothing but whitespace before and after it; any other line  *)
(* (another case, a missing or an extra character, an empty line) ends in  *)
(* the abort.                                                              *)
(***************************************************************************)
C5_AcceptedIffTrimmedToken ==
  /\ (pc \in {"loop", "remove"} \/ (pc = "exited" /\ exitCode = <<0>>)) =>
       IsAccepted(confirm)
  /\ (pc = "exited" /\ err = <<>> /\ exitCode = <<1>>) =>
       (~IsAccepted(confirm) /\ out[Len(out)] = AbortLine)
  /\ (pc = "exited" /\ err = <<>>) => exitCode \in {<<0>>, <<1>>}

C5_Witness ==
  /\ pc = "exited"
  /\ confirm = <<" ", " ">> \o TOKEN \o <<" ", " ">>
  /\ exitCode = <<0>>
  /\ fs = {}

(***************************************************************************)
(* C6.  When the script is run again after a confirmed run in which no     *)
(* removal failed, a confirmed second run removes nothing, reports         *)
(* "skipped" for every entry whose path existed before the first run, and  *)
(* at its exit has so reported every such target path.                     *)
(***************************************************************************)
C6_SecondRunSkips ==
  (run >= 2 /\ prev.exitCode = <<0>> /\ NoFailure(prev.out) /\ InDeletion) =>
    /\ fs = fs0
    /\ attempts = <<>>
    /\ \A k \in 1..Len(Outcomes) :
         Outcomes[k].path \in prev.fs0 => Outcomes[k].kind = "Skipped"
    /\ pc = "exited" =>
         \A p \in prev.fs0 \cap Range(files_to_delete) :
           \E k \in 1..Len(Outcomes) : Outcomes[k] = SkippedLine(p)

C6_Witness ==
  /\ run = 2
  /\ prev.exitCode = <<0>>
  /\ NoFailure(prev.out)
  /\ prev.fs0 = Paths
  /\ files_to_delete = ShippedList
  /\ InDeletion
  /\ pc = "exited"

(***************************************************************************)
(* C7.  Whenever the path of the entry being processed does not exist at   *)
(* the step that prints the entry's outcome, that outcome is "skipped",    *)
(* also when another process removed the path after the existence check.   *)
(***************************************************************************)
C7_AbsentIsSkipped ==
  [][ ( /\ pc \in {"loop", "remove"}
        /\ files_to_delete[i] \notin fs
        /\ Len(out') = Len(out) + 1 )
      => out'[Len(out')].kind = "Skipped" ]_vars

\* The listing printed under the header is the target list, and outcomes
\* and removals concern listed paths only.
ListedIsActedOn ==
  /\ pc \in {"prompt", "compare", "loop", "remove", "exited"} =>
       /\ Len(Listed) = N
       /\ \A k \in 1..N : Listed[k].path = files_to_delete[k]
  /\ \A k \in 1..Len(Outcomes) :
       k <= Len(Listed) /\ Outcomes[k].path = Listed[k].path
  /\ \A a \in DOMAIN attempts :
       attempts[a] <= Len(Listed)
  /\ fs \subseteq fs0
  /\ (fs0 \ fs) \subseteq {Listed[k].path : k \in DOMAIN Listed}

(***************************************************************************)
(* C8.  No step creates a path or removes a path that is not an entry of   *)
(* the target list, the target list never changes, and the paths printed   *)
(* under the header are the list: the paths acted on are the paths shown.  *)
(***************************************************************************)
C8_Frame ==
  /\ []ListedIsActedOn
  /\ [][ /\ fs' \subseteq fs
         /\ (fs \ fs') \subseteq Range(files_to_delete)
         /\ files_to_delete' = files_to_delete ]_vars

C8_Witness ==
  /\ pc = "exited"
  /\ files_to_delete = <<"README.md">>
  /\ fs0 = Paths
  /\ fs = Paths \ {"README.md"}

(***************************************************************************)
(* C9.  As claimed: a path whose removal failed has exactly one failure    *)
(* message and exactly one removal attempt.                                *)
(***************************************************************************)
C9_OncePerPath ==
  \A p \in Paths :
    FailedCount(p) >= 1 => (FailedCount(p) = 1 /\ AttemptCount(p) = 1)

(***************************************************************************)
(* C9, amended.  No entry is attempted twice: the removal attempts are at  *)
(* strictly increasing positions of the list, each attempt has exactly one *)
(* line (deleted or failed), and an entry reported failed was attempted    *)
(* exactly once.  A path gets at most as many attempts and failure lines   *)
(* as it has entries, hence exactly one of each when its removal failed    *)
(* and it occurs once.                                                     *)
(***************************************************************************)
C9_OncePerEntry ==
  /\ \A a, b \in DOMAIN attempts : a < b => attempts[a] < attempts[b]
  /\ Len(SelectSeq(out, IsAttemptLine)) = Len(attempts)
  /\ \A k \in 1..Len(Outcomes) :
       Outcomes[k].kind = "Failed" =>
         Cardinality({a \in DOMAIN attempts : attempts[a] = k}) = 1
  /\ \A p \in Paths :
       /\ FailedCount(p) <= AttemptCount(p)
       /\ AttemptCount(p) <= Occurrences(p)
       /\ (FailedCount(p) >= 1 /\ Occurrences(p) = 1) =>
            (FailedCount(p) = 1 /\ AttemptCount(p) = 1)

C9_Witness ==
  /\ pc = "exited"
  /\ files_to_delete = <<"README.md", "pubspec.yaml", "README.md">>
  /\ FailedCount("README.md") = 2
  /\ AttemptCount("README.md") = 2

\* The paths removed since the process started are the ones reported deleted.
RemovedIsReported == fs0 \ fs = ReportedDeleted

(***************************************************************************)
(* C10.  A step that prints "Deleted: p" follows a successful existence    *)
(* check of p and removes exactly p, which existed; a step that prints     *)
(* "Skipped" or "Failed" leaves the filesystem as it was; and at every     *)
(* point of a run the paths removed since its start are the paths it has   *)
(* reported deleted.                                                       *)
(***************************************************************************)
C10_ReportsSound ==
  /\ []RemovedIsReported
  /\ [][ (Len(out') = Len(out) + 1 /\ IsOutcome(out'[Len(out')])) =>
           LET l == out'[Len(out')]
           IN  IF l.kind = "Deleted"
                 THEN /\ pc = "remove"
                      /\ l.path = files_to_delete[i]
                      /\ l.path \in fs
                      /\ fs' = fs \ {l.path}
                 ELSE fs' = fs ]_vars

C10_Witness ==
  /\ pc = "exited"
  /\ N = 3
  /\ fs0 = Paths
  /\ Cardinality(ReportedDeleted) = 1
  /\ \E k \in 1..N : Outcomes[k].kind = "Failed"
  /\ \E k \in 1..N : Outcomes[k].kind = "Skipped"

====
